---- MODULE Spec2Model ----
(***************************************************************************)
(* A model of the mastra-galileo integration: the Galileo logger module    *)
(* (configuration from the environment, initializeGalileo, the shutdown    *)
(* handlers, logOperation), the tool and workflow-step callbacks that are  *)
(* wrapped with the Galileo SDK's log, and the external calls they make.   *)
(*                                                                         *)
(* Strings that the code only passes around are TLA+ strings.  A message   *)
(* built by a template literal is the sequence of its parts, so that       *)
(* `prefix ${x}` is <<prefix>> \o x.  The value of GALILEO_ENABLED is a    *)
(* sequence of characters because getEnvBoolean looks inside it            *)
(* (toLowerCase).                                                          *)
(***************************************************************************)
EXTENDS Integers, Sequences, FiniteSets, TLC

VARIABLES
    env,        \* process.env: a function whose domain is the set of variables that are set
    loaded,     \* galileo-logger.ts module evaluation: "no" | "ok" | "threw"
    config,     \* the module-level config object (NoConfig before / without a successful load)
    loadError,  \* the error thrown by the module evaluation (NoError if none)
    app,        \* modules evaluated after the logger: "none" | "tools" | "ready"
    fns,        \* the module-level wrapped functions (getWeather, createPaymentLink, ...)
    sdk,        \* calls received by the Galileo SDK: init, log, flush, and spans of wrapped calls
    galileoInit,\* the promise of the initializeGalileo() call made by mastra/index.ts
    handlers,   \* activations of the SIGINT / SIGTERM / unhandledRejection listeners
    proc,       \* the process: running or exited, exit code, who called process.exit
    started,    \* number of operations invoked so far
    op,         \* the tool / step / wrapped-function invocation in flight
    run,        \* the run of weatherWorkflow in progress, with the results of its steps
    tr,         \* a run of traced steps: its runtime context, the spans, the steps executed
    cx,         \* a tracing context handled with get/set/createChildTracingContext
    stripeAgentToolkit  \* the module-level StripeAgentToolkit instance of stripe-tools.ts

vars == <<env, loaded, config, loadError, app, fns, sdk, galileoInit, handlers, proc, started, op, run, tr, cx,
         stripeAgentToolkit>>

-----------------------------------------------------------------------------
(* JavaScript values *)

NoError == [name |-> "none", message |-> <<>>]

Error(message) == [name |-> "Error", message |-> message]

NoConfig == [loaded |-> FALSE]

-----------------------------------------------------------------------------
(* galileo-logger.ts: environment parsing *)

StringKeys == {"GALILEO_PROJECT_NAME", "GALILEO_LOG_STREAM_NAME", "GALILEO_API_KEY", "GALILEO_BASE_URL"}

EnvKeys == StringKeys \cup {"GALILEO_ENABLED"}

\* !value for a string read from process.env: undefined (unset) or ''
Falsy(e, key) == key \notin DOMAIN e \/ e[key] = ""

\* !value for GALILEO_ENABLED (a character sequence)
FalsyChars(e, key) == key \notin DOMAIN e \/ Len(e[key]) = 0

NoDefault == [given |-> FALSE]

Default(v) == [given |-> TRUE, value |-> v]

\* getEnvString with `process.env[key] || ''` for a variable without default
getEnvStringEmpty(e, key, defaultValue) ==
    IF Falsy(e, key)
    THEN [ok |-> TRUE, value |-> IF defaultValue.given THEN defaultValue.value ELSE ""]
    ELSE [ok |-> TRUE, value |-> e[key]]

\* getEnvString testing `value === undefined`: an empty value is kept
getEnvStringNullish(e, key, defaultValue) ==
    IF key \notin DOMAIN e
    THEN IF defaultValue.given
         THEN [ok |-> TRUE, value |-> defaultValue.value]
         ELSE [ok |-> FALSE,
               error |-> Error(<<"Required environment variable ", key, " is not set">>)]
    ELSE [ok |-> TRUE, value |-> e[key]]

\* getEnvString: the outcome is [ok |-> TRUE, value] or [ok |-> FALSE, error]
getEnvString(e, key, defaultValue) ==
    IF Falsy(e, key)
    THEN IF defaultValue.given
         THEN [ok |-> TRUE, value |-> defaultValue.value]
         ELSE [ok |-> FALSE,
               error |-> Error(<<"Required environment variable ", key, " is not set">>)]
    ELSE [ok |-> TRUE, value |-> e[key]]

\* String.prototype.toLowerCase on one character
LowerChar(c) ==
    CASE c = "T" -> "t"
      [] c = "R" -> "r"
      [] c = "U" -> "u"
      [] c = "E" -> "e"
      [] c = "F" -> "f"
      [] c = "A" -> "a"
      [] c = "L" -> "l"
      [] c = "S" -> "s"
      [] c = "Y" -> "y"
      [] c = "O" -> "o"
      [] c = "N" -> "n"
      [] OTHER -> c

toLowerCase(s) == [i \in 1..Len(s) |-> LowerChar(s[i])]

\* a getEnvBoolean that compares the value itself with 'true'
getEnvBooleanCaseSensitive(e, key, defaultValue) ==
    IF FalsyChars(e, key)
    THEN defaultValue
    ELSE e[key] = <<"t", "r", "u", "e">> \/ e[key] = <<"1">>

\* getEnvBoolean
getEnvBoolean(e, key, defaultValue) ==
    IF FalsyChars(e, key)
    THEN defaultValue
    ELSE toLowerCase(e[key]) = <<"t", "r", "u", "e">> \/ e[key] = <<"1">>

\* const config = { ... }: the property initialisers run in order and the
\* first one that throws aborts the module evaluation.
LoadConfig(e) ==
    LET projectName   == getEnvString(e, "GALILEO_PROJECT_NAME", Default("mastra-agents"))
        logStreamName == getEnvString(e, "GALILEO_LOG_STREAM_NAME", Default("default-stream"))
        apiKey        == getEnvString(e, "GALILEO_API_KEY", NoDefault)
        baseUrl       == getEnvString(e, "GALILEO_BASE_URL", Default("https://api.galileo.ai"))
        enabled       == getEnvBoolean(e, "GALILEO_ENABLED", TRUE)
    IN  IF ~projectName.ok THEN [ok |-> FALSE, error |-> projectName.error]
        ELSE IF ~logStreamName.ok THEN [ok |-> FALSE, error |-> logStreamName.error]
        ELSE IF ~apiKey.ok THEN [ok |-> FALSE, error |-> apiKey.error]
        ELSE IF ~baseUrl.ok THEN [ok |-> FALSE, error |-> baseUrl.error]
        ELSE [ok |-> TRUE,
              value |-> [loaded |-> TRUE,
                         projectName |-> projectName.value,
                         logStreamName |-> logStreamName.value,
                         apiKey |-> apiKey.value,
                         baseUrl |-> baseUrl.value,
                         enabled |-> enabled]]

-----------------------------------------------------------------------------
(* Environments *)

StringValues == {"", "custom"}

EnabledValues ==
    { <<>>,
      <<"t", "r", "u", "e">>, <<"T", "R", "U", "E">>, <<"T", "r", "u", "e">>,
      <<"1">>, <<"0">>,
      <<"f", "a", "l", "s", "e">>, <<"y", "e", "s">>, <<"o", "n">>,
      <<"t", "r", "u", "e", " ">>, <<"1", "1">> }

\* A variable is unset (no value) or set to one value: the set of its values.
Optional(values) == {{}} \cup { {v} : v \in values }

\* process.env built from one choice per variable
MkEnv(projectName, logStreamName, apiKey, baseUrl, enabled) ==
    LET choice == [GALILEO_PROJECT_NAME |-> projectName,
                   GALILEO_LOG_STREAM_NAME |-> logStreamName,
                   GALILEO_API_KEY |-> apiKey,
                   GALILEO_BASE_URL |-> baseUrl,
                   GALILEO_ENABLED |-> enabled]
    IN  [k \in {key \in EnvKeys : choice[key] # {}} |-> CHOOSE v \in choice[k] : TRUE]

\* every environment: each variable unset, empty or set
AllEnvs ==
    { MkEnv(p, s, a, b, en) :
        p \in Optional(StringValues), s \in Optional(StringValues),
        a \in Optional(StringValues), b \in Optional(StringValues),
        en \in Optional(EnabledValues) }

\* environments of the running application: the API key and GALILEO_ENABLED vary
ProcEnvs ==
    { MkEnv({}, {}, a, {}, en) :
        a \in Optional({"custom"}),
        en \in Optional({<<"f", "a", "l", "s", "e">>}) }

-----------------------------------------------------------------------------
(* Bounds *)

MaxTriggers == 2

MaxOps == 2

MaxChunks == 2

\* traced steps executed in one run
MaxSteps == 2

\* operations invoked and shutdown events received by the process that does both
MaxProcessOps == 1

\* the largest weather_code a forecast carries
MaxCode == 100

MaxProcessTriggers == 1

-----------------------------------------------------------------------------
(* The Galileo SDK (external): what the application can observe of it *)

NoOptions == [name |-> "none", spanType |-> "none"]

NoSdkCalls == [init |-> 0, log |-> 0, flush |-> 0, spans |-> 0]

\* a plain async function of the application
PlainFn(name) == [kind |-> "plain", name |-> name, options |-> "none"]

\* log(options, fn): the SDK returns a wrapper around fn
SdkLog(options, fn) == [kind |-> "sdkWrapped", name |-> fn.name, options |-> options]

-----------------------------------------------------------------------------
(* galileo-logger.ts *)

\* logOperation returning a stub `async () => undefined` when disabled
logOperationNoop(cfg, options, fn) ==
    IF ~cfg.enabled
    THEN [fn |-> [kind |-> "noop", name |-> fn.name, options |-> NoOptions], logCalls |-> 0]
    ELSE [fn |-> SdkLog(options, fn), logCalls |-> 1]

\* logOperation(options, fn), and how many calls of the SDK's log it makes
logOperation(cfg, options, fn) ==
    IF ~cfg.enabled
    THEN [fn |-> fn, logCalls |-> 0]
    ELSE [fn |-> SdkLog(options, fn), logCalls |-> 1]

\* the names the logger module exports
LoggerExports == {"initializeGalileo", "logOperation", "galileoConfig", "log", "init", "flush"}

\* const { how } = require('./src/logger/galileo-logger'); how(options, fn):
\* a name the module does not export is undefined, and calling it throws
Wrap(cfg, how, options, fn) ==
    IF how \notin LoggerExports
    THEN [ok |-> FALSE, fn |-> fn, logCalls |-> 0,
          error |-> [name |-> "TypeError", message |-> <<how, " is not a function">>]]
    ELSE IF how = "logOperation"
    THEN [ok |-> TRUE, fn |-> logOperation(cfg, options, fn).fn,
          logCalls |-> logOperation(cfg, options, fn).logCalls, error |-> NoError]
    ELSE [ok |-> TRUE, fn |-> SdkLog(options, fn), logCalls |-> 1, error |-> NoError]

\* exit code passed to process.exit by the listener of each event
ExitCode(trigger) ==
    CASE trigger = "SIGINT" -> 0
      [] trigger = "SIGTERM" -> 0
      [] trigger = "unhandledRejection" -> 1

Triggers == {"SIGINT", "SIGTERM", "unhandledRejection"}

\* by: who ended the process ("handler", "direct", "uncaught"); handler: which activation
Running == [status |-> "running", code |-> -1, by |-> "none", handler |-> 0]

\* process.on('exit', ...): the listener writes to the console and makes no SDK call
ExitListener(calls) == calls

\* process.exit(code)
ProcessExit(code, by, handler) == [status |-> "exited", code |-> code, by |-> by, handler |-> handler]

\* a listener that calls flush() without waiting for it
gracefulFlushNoAwait(cfg, trigger) ==
    IF cfg.enabled
    THEN [trigger |-> trigger, pc |-> "afterFlush", flush |-> "pending", flushCalls |-> 1]
    ELSE [trigger |-> trigger, pc |-> "afterFlush", flush |-> "none", flushCalls |-> 0]

\* the listener of an event up to `await gracefulFlush()`: flush() is called
\* only when enabled, and the listener waits for it (flushCalls: calls of
\* flush() made by this activation)
gracefulFlush(cfg, trigger) ==
    IF cfg.enabled
    THEN [trigger |-> trigger, pc |-> "awaitFlush", flush |-> "pending", flushCalls |-> 1]
    ELSE [trigger |-> trigger, pc |-> "afterFlush", flush |-> "none", flushCalls |-> 0]

\* gracefulFlush() calling flush() again after a rejection
AfterFlushRetry(h, outcome) ==
    IF outcome = "rejected"
    THEN [h EXCEPT !.pc = "awaitFlush", !.flush = "pending", !.flushCalls = @ + 1]
    ELSE [h EXCEPT !.pc = "afterFlush", !.flush = outcome]

\* gracefulFlush() after flush() settled: a rejection is caught and logged
AfterFlush(h, outcome) ==
    [h EXCEPT !.pc = "afterFlush", !.flush = outcome]

-----------------------------------------------------------------------------
(* Operations: promises, thrown values, the invocation record *)

Pending == [status |-> "pending"]

Resolved(v) == [status |-> "resolved", value |-> v]

Rejected(e) == [status |-> "rejected", error |-> e]

\* error instanceof Error
IsError(e) == e.name \in {"Error", "TypeError", "SyntaxError"}

NoFn == [kind |-> "none", name |-> "none", options |-> NoOptions]

\* a fresh invocation of operation kind with the given input
NewOp(kind, input) ==
    [kind |-> kind, input |-> input, pc |-> "start", fn |-> NoFn,
     calls |-> <<>>,        \* external calls issued, in order, with their results
     getTools |-> 0,        \* calls of stripeAgentToolkit.getTools()
     tools |-> {},          \* the names of the tools getTools() returned
     fnCalls |-> <<>>,      \* argument lists the wrapped callback was invoked with
     raised |-> NoError,    \* the error first raised inside the operation
     fnOutcome |-> Pending, \* what the wrapped callback settled with
     outcome |-> Pending,   \* what the caller of the operation observes
     chunks |-> <<>>,       \* chunks the agent's text stream has yielded, in order
     text |-> <<>>]         \* activitiesText of plan-activities

\* the promise returned by a function made by the SDK's log settles as the
\* callback's promise did; `return await` in execute passes it on
Deliver(o, settled) ==
    [o EXCEPT !.pc = "done", !.fnOutcome = settled, !.outcome = settled]

\* throw e, uncaught inside the callback
Throw(o, e) == Deliver([o EXCEPT !.raised = e], Rejected(e))

\* catch (error) { throw wrapped }: error was raised, wrapped leaves the callback
Rethrow(o, error, wrapped) == Deliver([o EXCEPT !.raised = error], Rejected(wrapped))

\* return v
Return(o, v) == Deliver(o, Resolved(v))

\* execute throws before the callback is called
Refuse(o, e) ==
    [o EXCEPT !.pc = "done", !.raised = e, !.outcome = Rejected(e)]

\* the function called is `async () => undefined`: the callback never runs
Skipped(o) ==
    [o EXCEPT !.pc = "done", !.outcome = Resolved("undefined")]

\* no HTTP response (yet)
NoResponse == [fetch |-> "pending", ok |-> FALSE, statusText |-> "", body |-> "none", results |-> <<>>, code |-> 0]

\* issue an external call and wait for it
Await(o, api, arg, pc) ==
    [o EXCEPT !.pc = pc,
              !.calls = Append(@, [api |-> api, arg |-> arg, result |-> "pending", response |-> NoResponse])]

\* the pending fetch has settled with resp
Receive(o, resp) ==
    [o EXCEPT !.calls[Len(o.calls)].response = resp]

\* the pending external call has returned
Settle(o, result) ==
    [o EXCEPT !.calls[Len(o.calls)].result = result]

\* calling f(...args): whether the callback body runs, and the spans the SDK opens
Invoke(f) ==
    [bodyRuns |-> f.kind \in {"plain", "sdkWrapped"},
     spans |-> IF f.kind = "sdkWrapped" THEN 1 ELSE 0]

-----------------------------------------------------------------------------
(* weather-tool.ts (getWeather) and weather-workflow.ts (fetch-weather) *)

GeocodeFailed(kind, location, statusText) ==
    IF kind = "weatherTool"
    THEN <<"Failed to geocode location '", location, "': ", statusText>>
    ELSE <<"Failed to geocode city '", location, "': ", statusText>>

\* responses of fetch(): the request rejects, or resolves with a response
FetchRejected == [fetch |-> "rejected", ok |-> FALSE, statusText |-> "", body |-> "none", results |-> <<>>, code |-> 0]

HttpError == [fetch |-> "resolved", ok |-> FALSE, statusText |-> "Bad Gateway", body |-> "none", results |-> <<>>, code |-> 0]

BadBody == [fetch |-> "resolved", ok |-> TRUE, statusText |-> "OK", body |-> "invalid", results |-> <<>>, code |-> 0]

GeoBody(results) == [fetch |-> "resolved", ok |-> TRUE, statusText |-> "OK", body |-> "json", results |-> results, code |-> 0]

ForecastBody(code) == [fetch |-> "resolved", ok |-> TRUE, statusText |-> "OK", body |-> "json", results |-> <<>>, code |-> code]

Place == [latitude |-> 48, longitude |-> 2, name |-> "Paris, FR"]

OtherPlace == [latitude |-> 33, longitude |-> -95, name |-> "Paris, US"]

GeoResponses ==
    {FetchRejected, HttpError, BadBody, GeoBody(<<>>), GeoBody(<<Place>>), GeoBody(<<Place, OtherPlace>>)}

ForecastResponses == {FetchRejected, HttpError, BadBody, ForecastBody(0), ForecastBody(95)}

\* forecasts with every weather code from -1 to MaxCode
WeatherCodeResponses == { ForecastBody(code) : code \in -1..MaxCode }

\* the async callback of getWeather / the body of fetch-weather, up to the first fetch
StartGeocode(o, location) ==
    Await([o EXCEPT !.fnCalls = Append(@, <<location>>)], "geocode", location, "geocode")

\* an execute that refuses only `location === undefined`
WeatherToolExecuteUndefinedOnly(o, f) ==
    IF "location" \notin DOMAIN o.input
    THEN Refuse(o, Error(<<"Location is required">>))
    ELSE StartGeocode([o EXCEPT !.fn = f], o.input["location"])

\* weatherTool.execute({ context })
WeatherToolExecute(o, f) ==
    IF Falsy(o.input, "location")
    THEN Refuse(o, Error(<<"Location is required">>))
    ELSE StartGeocode([o EXCEPT !.fn = f], o.input["location"])

\* fetchWeather.execute(params)
FetchWeatherExecute(o) ==
    IF "city" \notin DOMAIN o.input
    THEN Refuse(o, Error(<<"Input data not found">>))
    ELSE StartGeocode(o, o.input["city"])

\* a geocoding request that is sent once more after a non-ok response
AfterGeocodeRetry(o, resp) ==
    LET location == o.calls[Len(o.calls)].arg IN
    IF resp.fetch = "rejected"
    THEN Throw(Settle(Receive(o, resp), "failed"), [name |-> "TypeError", message |-> <<"fetch failed">>])
    ELSE IF ~resp.ok
    THEN IF Len(o.calls) < 2
         THEN Await(Settle(Receive(o, resp), "failed"), "geocode", location, "geocode")
         ELSE Throw(Settle(Receive(o, resp), "failed"), Error(GeocodeFailed(o.kind, location, resp.statusText)))
    ELSE IF resp.body = "invalid"
    THEN Throw(Settle(Receive(o, resp), "failed"), [name |-> "SyntaxError", message |-> <<"Unexpected token">>])
    ELSE IF Len(resp.results) = 0
    THEN Throw(Settle(Receive(o, resp), "ok"), Error(<<"Location '", location, "' not found">>))
    ELSE Await(Settle(Receive(o, resp), "ok"), "forecast",
               [latitude |-> resp.results[1].latitude,
                longitude |-> resp.results[1].longitude,
                name |-> resp.results[1].name],
               "forecast")

\* a lookup that takes the last geocoding result instead of results[0]
AfterGeocodeLastResult(o, resp) ==
    LET location == o.calls[Len(o.calls)].arg IN
    IF resp.fetch = "rejected"
    THEN Throw(Settle(Receive(o, resp), "failed"), [name |-> "TypeError", message |-> <<"fetch failed">>])
    ELSE IF ~resp.ok
    THEN Throw(Settle(Receive(o, resp), "failed"), Error(GeocodeFailed(o.kind, location, resp.statusText)))
    ELSE IF resp.body = "invalid"
    THEN Throw(Settle(Receive(o, resp), "failed"), [name |-> "SyntaxError", message |-> <<"Unexpected token">>])
    ELSE IF Len(resp.results) = 0
    THEN Throw(Settle(Receive(o, resp), "ok"), Error(<<"Location '", location, "' not found">>))
    ELSE Await(Settle(Receive(o, resp), "ok"), "forecast",
               [latitude |-> resp.results[Len(resp.results)].latitude,
                longitude |-> resp.results[Len(resp.results)].longitude,
                name |-> resp.results[Len(resp.results)].name],
               "forecast")

\* after `await fetch(geocodingUrl)`
AfterGeocode(o, resp) ==
    LET location == o.calls[Len(o.calls)].arg IN
    IF resp.fetch = "rejected"
    THEN Throw(Settle(Receive(o, resp), "failed"), [name |-> "TypeError", message |-> <<"fetch failed">>])
    ELSE IF ~resp.ok
    THEN Throw(Settle(Receive(o, resp), "failed"), Error(GeocodeFailed(o.kind, location, resp.statusText)))
    ELSE IF resp.body = "invalid"
    THEN Throw(Settle(Receive(o, resp), "failed"), [name |-> "SyntaxError", message |-> <<"Unexpected token">>])
    ELSE IF Len(resp.results) = 0
    THEN Throw(Settle(Receive(o, resp), "ok"), Error(<<"Location '", location, "' not found">>))
    ELSE Await(Settle(Receive(o, resp), "ok"), "forecast",
               [latitude |-> resp.results[1].latitude,
                longitude |-> resp.results[1].longitude,
                name |-> resp.results[1].name],
               "forecast")

\* weather-tool.ts: const conditions: Record<number, string>
conditions ==
    0 :> "Clear sky" @@
    1 :> "Mainly clear" @@
    2 :> "Partly cloudy" @@
    3 :> "Overcast" @@
    45 :> "Foggy" @@
    48 :> "Depositing rime fog" @@
    51 :> "Light drizzle" @@
    53 :> "Moderate drizzle" @@
    55 :> "Dense drizzle" @@
    56 :> "Light freezing drizzle" @@
    57 :> "Dense freezing drizzle" @@
    61 :> "Slight rain" @@
    63 :> "Moderate rain" @@
    65 :> "Heavy rain" @@
    66 :> "Light freezing rain" @@
    67 :> "Heavy freezing rain" @@
    71 :> "Slight snow fall" @@
    73 :> "Moderate snow fall" @@
    75 :> "Heavy snow fall" @@
    77 :> "Snow grains" @@
    80 :> "Slight rain showers" @@
    81 :> "Moderate rain showers" @@
    82 :> "Violent rain showers" @@
    85 :> "Slight snow showers" @@
    86 :> "Heavy snow showers" @@
    95 :> "Thunderstorm" @@
    96 :> "Thunderstorm with slight hail" @@
    99 :> "Thunderstorm with heavy hail"

\* a lookup without the `|| 'Unknown'` fallback
getWeatherConditionNoFallback(code) ==
    IF code \in DOMAIN conditions THEN conditions[code] ELSE "undefined"

\* weather-tool.ts: conditions[code] || 'Unknown'
getWeatherCondition(code) ==
    IF code \in DOMAIN conditions /\ conditions[code] # "" THEN conditions[code] ELSE "Unknown"

\* weather-workflow.ts: const conditions: Record<number, string>
conditionsWorkflow ==
    0 :> "Clear sky" @@
    1 :> "Mainly clear" @@
    2 :> "Partly cloudy" @@
    3 :> "Overcast" @@
    45 :> "Foggy" @@
    48 :> "Depositing rime fog" @@
    51 :> "Light drizzle" @@
    53 :> "Moderate drizzle" @@
    55 :> "Dense drizzle" @@
    56 :> "Light freezing drizzle" @@
    57 :> "Dense freezing drizzle" @@
    61 :> "Slight rain" @@
    63 :> "Moderate rain" @@
    65 :> "Heavy rain" @@
    66 :> "Light freezing rain" @@
    67 :> "Heavy freezing rain" @@
    71 :> "Slight snow fall" @@
    73 :> "Moderate snow fall" @@
    75 :> "Heavy snow fall" @@
    77 :> "Snow grains" @@
    80 :> "Slight rain showers" @@
    81 :> "Moderate rain showers" @@
    82 :> "Violent rain showers" @@
    85 :> "Slight snow showers" @@
    86 :> "Heavy snow showers" @@
    95 :> "Thunderstorm" @@
    96 :> "Thunderstorm with slight hail" @@
    99 :> "Thunderstorm with heavy hail"

\* weather-workflow.ts: conditions[code] || 'Unknown'
getWeatherConditionWorkflow(code) ==
    IF code \in DOMAIN conditionsWorkflow /\ conditionsWorkflow[code] # ""
    THEN conditionsWorkflow[code]
    ELSE "Unknown"

\* after `await fetch(weatherUrl)`
AfterForecast(o, resp) ==
    LET name == o.calls[Len(o.calls)].arg.name IN
    IF resp.fetch = "rejected"
    THEN Throw(Settle(Receive(o, resp), "failed"), [name |-> "TypeError", message |-> <<"fetch failed">>])
    ELSE IF ~resp.ok
    THEN Throw(Settle(Receive(o, resp), "failed"),
               Error(<<"Failed to fetch weather data for '", name, "': ", resp.statusText>>))
    ELSE IF resp.body = "invalid"
    THEN Throw(Settle(Receive(o, resp), "failed"), [name |-> "SyntaxError", message |-> <<"Unexpected token">>])
    ELSE Return(Settle(Receive(o, resp), "ok"),
                [location |-> name,
                 conditions |-> IF o.kind = "weatherTool"
                                THEN getWeatherCondition(resp.code)
                                ELSE getWeatherConditionWorkflow(resp.code)])

-----------------------------------------------------------------------------
(* stripe-tools.ts *)

NoToolkit == [created |-> FALSE, actions |-> {}]

\* new StripeAgentToolkit({ secretKey, configuration: { actions: ... } })
NewStripeAgentToolkit ==
    [created |-> TRUE,
     actions |-> {"paymentLinks", "products", "customers", "subscriptions", "refunds"}]

StripeOps == {"createPaymentLink", "createCustomer", "listProducts",
              "createSubscription", "cancelSubscription", "createRefund"}

\* per operation: the span name, the toolkit tool it looks up, the fields its
\* tool's execute requires, and the messages of its errors
StripeTable ==
    [createPaymentLink |->
        [span |-> "create-payment-link-api-call", tool |-> "create_payment_link",
         required |-> {"price", "productName"},
         requiredMsg |-> "Price and product name are required",
         missingMsg |-> "Payment link tool not available",
         failedMsg |-> "Failed to create payment link: "],
     createCustomer |->
        [span |-> "create-customer-api-call", tool |-> "create_customer",
         required |-> {"email"},
         requiredMsg |-> "Email is required",
         missingMsg |-> "Customer creation tool not available",
         failedMsg |-> "Failed to create customer: "],
     listProducts |->
        [span |-> "list-products-api-call", tool |-> "list_products",
         required |-> {},
         requiredMsg |-> "",
         missingMsg |-> "Products listing tool not available",
         failedMsg |-> "Failed to list products: "],
     createSubscription |->
        [span |-> "create-subscription-api-call", tool |-> "create_subscription",
         required |-> {"customerId", "priceId"},
         requiredMsg |-> "Customer ID and price ID are required",
         missingMsg |-> "Subscription creation tool not available",
         failedMsg |-> "Failed to create subscription: "],
     cancelSubscription |->
        [span |-> "cancel-subscription-api-call", tool |-> "cancel_subscription",
         required |-> {"subscriptionId"},
         requiredMsg |-> "Subscription ID is required",
         missingMsg |-> "Subscription cancellation tool not available",
         failedMsg |-> "Failed to cancel subscription: "],
     createRefund |->
        [span |-> "create-refund-api-call", tool |-> "create_refund",
         required |-> {"paymentIntentId"},
         requiredMsg |-> "Payment intent ID is required",
         missingMsg |-> "Refund creation tool not available",
         failedMsg |-> "Failed to create refund: "]]

StripeToolNames == { StripeTable[k].tool : k \in StripeOps }

\* `Failed to ...: ${error instanceof Error ? error.message : 'Unknown error'}`
StripeFailure(kind, error) ==
    Error(<<StripeTable[kind].failedMsg>> \o (IF IsError(error) THEN error.message ELSE <<"Unknown error">>))

\* a callback that invokes the tool without testing that tools.find found it
StripeBodyNoLookup(o, tools) ==
    Await([o EXCEPT !.fnCalls = Append(@, o.input), !.getTools = @ + 1, !.tools = tools],
          "invoke", StripeTable[o.kind].tool, "invoke")

\* the async callback of a Stripe operation, up to `await tool.invoke(...)`;
\* tools is what stripeAgentToolkit.getTools() returned
StripeBody(o, tools) ==
    LET called == [o EXCEPT !.fnCalls = Append(@, o.input), !.getTools = @ + 1, !.tools = tools]
        missing == Error(<<StripeTable[o.kind].missingMsg>>)
    IN  IF StripeTable[o.kind].tool \notin tools
        THEN Rethrow(called, missing, StripeFailure(o.kind, missing))
        ELSE Await(called, "invoke", StripeTable[o.kind].tool, "invoke")

\* the tool lists getTools() may return: every tool, or all but one
ToolLists == {StripeToolNames} \cup { StripeToolNames \ {t} : t \in StripeToolNames }

\* an execute that rejects only absent fields, not empty ones
StripeExecuteUndefinedOnly(o, f, tools) ==
    IF \E field \in StripeTable[o.kind].required : field \notin DOMAIN o.input
    THEN Refuse(o, Error(<<StripeTable[o.kind].requiredMsg>>))
    ELSE StripeBody([o EXCEPT !.fn = f], tools)

\* the execute of a Stripe tool
StripeExecute(o, f, tools) ==
    IF \E field \in StripeTable[o.kind].required : Falsy(o.input, field)
    THEN Refuse(o, Error(<<StripeTable[o.kind].requiredMsg>>))
    ELSE StripeBody([o EXCEPT !.fn = f], tools)

\* results of tool.invoke(): it resolves with an object or rejects with a thrown value
InvokeResults ==
    { Resolved("obj_1"),
      Rejected(Error(<<"card_declined">>)),
      Rejected([name |-> "NonError", message |-> <<>>]) }

\* a catch block that returns a failure object instead of throwing
AfterInvokeSwallow(o, res) ==
    IF res.status = "rejected"
    THEN Deliver([Settle(o, "failed") EXCEPT !.raised = res.error],
                 Resolved([id |-> "none", success |-> FALSE]))
    ELSE Return(Settle(o, "ok"), [id |-> res.value, success |-> TRUE])

\* after `await tool.invoke(...)`
AfterInvoke(o, res) ==
    IF res.status = "rejected"
    THEN Rethrow(Settle(o, "failed"), res.error, StripeFailure(o.kind, res.error))
    ELSE Return(Settle(o, "ok"), [id |-> res.value, success |-> TRUE])

-----------------------------------------------------------------------------
(* weather-workflow.ts: plan-activities *)

\* a forecast as fetch-weather returns it
SomeForecast == [location |-> "Paris, FR", conditions |-> "Clear sky"]

\* planActivities.execute(params) up to `await agent.stream(...)`; inputData
\* is <<>> (undefined) or <<forecast>>, agent tells whether mastra.getAgent
\* finds the weather agent
PlanActivitiesExecute(o) ==
    IF o.input.inputData = <<>>
    THEN Refuse(o, Error(<<"Forecast data not found">>))
    ELSE IF ~o.input.agent
    THEN Refuse(o, Error(<<"Weather agent not found">>))
    ELSE Await(o, "stream", "prompt", "stream")

StreamError == Error(<<"stream failed">>)

\* after `await agent.stream(...)`: catch (err) { throw err }
AfterStream(o, res) ==
    IF res.status = "rejected"
    THEN Throw(Settle(o, "failed"), res.error)
    ELSE [o EXCEPT !.pc = "chunks"]

\* an accumulation that puts each chunk in front of the text
OnChunkPrepend(o, chunk) ==
    [o EXCEPT !.chunks = Append(@, chunk), !.text = <<chunk>> \o @]

\* for await (const chunk of response.textStream): activitiesText += chunk
OnChunk(o, chunk) ==
    [o EXCEPT !.chunks = Append(@, chunk), !.text = Append(@, chunk)]

\* the stream ends: return { activities: activitiesText }
OnStreamEnd(o) == Return(Settle(o, "ok"), [activities |-> o.text])

\* the stream fails while iterating: catch (err) { throw err }
OnStreamError(o, e) == Throw(Settle(o, "failed"), e)

-----------------------------------------------------------------------------
(* weather-workflow.ts: weatherWorkflow *)

\* createWorkflow(...).then(planActivities).then(fetchWeather)
weatherWorkflowReversed == <<"planActivities", "fetchWeather">>

\* createWorkflow(...).then(fetchWeather).then(planActivities): the step chain
weatherWorkflow == <<"fetchWeather", "planActivities">>

\* starts: the steps started with their inputData; results: the steps settled,
\* with their outcome and the external calls they made
NoRun == [status |-> "none", at |-> 0, agent |-> FALSE, starts |-> <<>>, results |-> <<>>]

\* the engine calls step.execute({ inputData, mastra, ... })
StepExecute(step, inputData, agent) ==
    IF step = "fetchWeather"
    THEN FetchWeatherExecute(NewOp("fetchWeather", inputData))
    ELSE PlanActivitiesExecute(NewOp("planActivities", [inputData |-> <<inputData>>, agent |-> agent]))

\* run.start({ inputData }): the first step of the chain is executed
StartRun(chain, inputData, agent) ==
    [status |-> "running", at |-> 1, agent |-> agent,
     starts |-> <<[step |-> chain[1], inputData |-> inputData]>>,
     results |-> <<>>]

\* a step's promise settled with o.outcome: a rejection fails the run, a
\* result is handed to the next step of the chain as its inputData, and
\* the result of the last step ends the run
AfterStep(chain, r, o) ==
    LET results == Append(r.results, [step |-> chain[r.at], outcome |-> o.outcome, calls |-> o.calls]) IN
    IF o.outcome.status = "rejected"
    THEN [r EXCEPT !.status = "failed", !.results = results]
    ELSE IF r.at = Len(chain)
    THEN [r EXCEPT !.status = "success", !.results = results]
    ELSE [r EXCEPT !.at = @ + 1, !.results = results,
                   !.starts = Append(@, [step |-> chain[r.at + 1], inputData |-> o.outcome.value])]

-----------------------------------------------------------------------------
(* a callback wrapped by the application with log or logOperation *)

TestOptions == [name |-> "test-function", spanType |-> "workflow"]

ArgLists == {<<>>, <<"a">>, <<"a", "b">>}

\* wrapped(...args)
CallWrapped(o, f) ==
    IF Invoke(f).bodyRuns
    THEN [o EXCEPT !.fn = f, !.fnCalls = Append(@, o.input), !.pc = "fn"]
    ELSE Skipped([o EXCEPT !.fn = f])

FnSettlements == {Resolved("result"), Rejected(Error(<<"boom">>)), Rejected([name |-> "NonError", message |-> <<>>])}

\* the callback's promise settles
AfterFn(o, settled) ==
    Deliver([o EXCEPT !.raised = IF settled.status = "rejected" THEN settled.error ELSE @], settled)

-----------------------------------------------------------------------------
(* The tracing context manager (context/tracing-context): a keyed store in the
   run's RuntimeContext.  An entry of the store is <<>> when the key is not
   set and <<v>> when it holds v; a span is referred to by its index in the
   sequence of the spans created. *)

NoContext == [traceId |-> <<>>, currentSpan |-> <<>>, parentSpan |-> <<>>]

\* the trace IDs initializeTrace hands out, in order
TraceIds == <<"trace-1", "trace-2", "trace-3", "trace-4">>

\* !value for a trace ID read from the context: undefined or ''
NoTraceId(v) == v = <<>> \/ v[1] = ""

ManagerError == Error(<<"tracing failed">>)

getTraceId(t) == t.ctx.traceId

\* initializeTrace(runtimeContext, name, metadata): a new trace, its ID stored
initializeTrace(t, how) ==
    IF how = "throws"
    THEN [t |-> t, ok |-> FALSE]
    ELSE [t |-> [t EXCEPT !.inits = @ + 1, !.ctx.traceId = <<TraceIds[t.inits + 1]>>],
          ok |-> TRUE]

\* createWorkflowSpan / createLLMSpan: a new span nested under the current
\* one becomes the current span; the call may also return null
createSpan(t, kind, how) ==
    CASE how = "throws" -> [t |-> t, ok |-> FALSE, span |-> <<>>]
      [] how = "null" -> [t |-> t, ok |-> TRUE, span |-> <<>>]
      [] how = "span" ->
            [t |-> [t EXCEPT !.spans = Append(@, [kind |-> kind, parent |-> t.ctx.currentSpan,
                                                  closes |-> 0, errors |-> 0]),
                             !.ctx.parentSpan = t.ctx.currentSpan,
                             !.ctx.currentSpan = <<Len(t.spans) + 1>>],
             ok |-> TRUE, span |-> <<Len(t.spans) + 1>>]

\* the context once its current span has ended: the enclosing span is current again
Unnest(t) ==
    LET parent == t.spans[t.ctx.currentSpan[1]].parent IN
    [t EXCEPT !.ctx.currentSpan = parent,
              !.ctx.parentSpan = IF parent = <<>> THEN <<>> ELSE t.spans[parent[1]].parent]

\* closeCurrentSpan(runtimeContext, result): the current span is closed
closeCurrentSpan(t, how) ==
    IF t.ctx.currentSpan = <<>>
    THEN [t |-> t, ok |-> how # "throws"]
    ELSE LET called == [t EXCEPT !.spans[t.ctx.currentSpan[1]].closes = @ + 1] IN
         IF how = "throws" THEN [t |-> called, ok |-> FALSE] ELSE [t |-> Unnest(called), ok |-> TRUE]

\* handleSpanError(runtimeContext, error): the error is reported to the current span
handleSpanError(t, how) ==
    IF t.ctx.currentSpan = <<>>
    THEN [t |-> t, ok |-> how # "throws"]
    ELSE LET called == [t EXCEPT !.spans[t.ctx.currentSpan[1]].errors = @ + 1] IN
         IF how = "throws" THEN [t |-> called, ok |-> FALSE] ELSE [t |-> Unnest(called), ok |-> TRUE]

-----------------------------------------------------------------------------
(* context/tracing-context.ts (a RuntimeContext) and src/tracing-context.ts (a
   plain object): getTracingContext, setTracingContext,
   createChildTracingContext.  A context is the record of its three entries;
   the plain object's parentSpan is a property the functions never look at. *)

\* !value for a span read from a context
NoSpan(v) == v = <<>>

\* getTracingContext(runtimeContext)
getTracingContext(c) ==
    [traceId |-> c.traceId, currentSpan |-> c.currentSpan, parentSpan |-> c.parentSpan]

\* a setTracingContext that stores every entry of the context given
setTracingContextOverwrite(c, context) ==
    [traceId |-> context.traceId, currentSpan |-> context.currentSpan, parentSpan |-> context.parentSpan]

\* setTracingContext(runtimeContext, context): only truthy entries are stored
setTracingContext(c, context) ==
    [traceId |-> IF ~NoTraceId(context.traceId) THEN context.traceId ELSE c.traceId,
     currentSpan |-> IF ~NoSpan(context.currentSpan) THEN context.currentSpan ELSE c.currentSpan,
     parentSpan |-> IF ~NoSpan(context.parentSpan) THEN context.parentSpan ELSE c.parentSpan]

\* a child context that does not take over the trace ID
createChildTracingContextNoTrace(parentContext) ==
    [traceId |-> <<>>,
     currentSpan |-> <<>>,
     parentSpan |-> IF ~NoSpan(parentContext.currentSpan) THEN parentContext.currentSpan ELSE <<>>]

\* createChildTracingContext(parentContext): a new RuntimeContext
createChildTracingContext(parentContext) ==
    [traceId |-> IF ~NoTraceId(parentContext.traceId) THEN parentContext.traceId ELSE <<>>,
     currentSpan |-> <<>>,
     parentSpan |-> IF ~NoSpan(parentContext.currentSpan) THEN parentContext.currentSpan ELSE <<>>]

\* src/tracing-context.ts getTracingContext(mastraContext): {} for no context
getTracingContextPlain(defined, c) ==
    IF ~defined
    THEN NoContext
    ELSE [traceId |-> c.traceId, currentSpan |-> c.currentSpan, parentSpan |-> <<>>]

\* src/tracing-context.ts setTracingContext(mastraContext, tracingContext)
setTracingContextPlain(defined, c, tracingContext) ==
    IF ~defined
    THEN c
    ELSE [c EXCEPT !.traceId = IF ~NoTraceId(tracingContext.traceId) THEN tracingContext.traceId ELSE @,
                   !.currentSpan = IF ~NoSpan(tracingContext.currentSpan) THEN tracingContext.currentSpan ELSE @]

\* src/tracing-context.ts createChildTracingContext(parentContext)
createChildTracingContextPlain(defined, parentContext) ==
    LET parentTracing == getTracingContextPlain(defined, parentContext) IN
    [traceId |-> parentTracing.traceId,
     currentSpan |-> parentTracing.currentSpan,
     parentSpan |-> <<>>]

\* a child that is the parent context itself
ChildObjectShared(parentContext) == "parent"

\* const childContext = new RuntimeContext() / return { ... }: the child is
\* an object of its own ("new"), not the parent object ("parent")
ChildObject(parentContext) == "new"

\* every context: each entry unset or set; a trace ID may be ''
AllContexts ==
    [traceId : {<<>>, <<"">>, <<"trace-1">>},
     currentSpan : {<<>>, <<"span-a">>},
     parentSpan : {<<>>, <<"span-b">>}]

\* the contexts handed to setTracingContext: each entry absent or set; a
\* trace ID may be ''
Partials ==
    [traceId : {<<>>, <<"">>, <<"trace-2">>},
     currentSpan : {<<>>, <<"span-c">>},
     parentSpan : {<<>>, <<"span-d">>}]

\* impl: which module's functions are used; defined: FALSE when the plain
\* context passed is undefined; got: the result of the last
\* getTracingContext; parent, child: the argument and the result of the last
\* createChildTracingContext; last: the function called last; partial: the
\* context given to the last setTracingContext; childObject: which object
\* the child is; childCtx: the entries the child holds now
NewCx(impl, c) ==
    [impl |-> impl, defined |-> TRUE, ctx |-> c, got |-> NoContext,
     made |-> FALSE, parent |-> NoContext, child |-> NoContext,
     childObject |-> "none", childCtx |-> NoContext,
     last |-> "none", partial |-> NoContext]

-----------------------------------------------------------------------------
(* utils/tracing-helpers: createTracingStep and createLLMStep *)

\* the configurations of a traced step: built by createTracingStep (with
\* autoTrace unset, true or false) or by createLLMStep
StepConfigs ==
    { [kind |-> "tracing", autoTrace |-> "unset"], [kind |-> "tracing", autoTrace |-> "true"],
      [kind |-> "tracing", autoTrace |-> "false"], [kind |-> "llm", autoTrace |-> "unset"] }

\* t0: the context, the traces initialized and the spans when the step began;
\* init: what initializeTrace does when this step calls it; settled: what
\* config.execute settled with
NoStep == [pc |-> "idle", cfg |-> [kind |-> "none", autoTrace |-> "unset"],
           span |-> <<>>, seen |-> <<>>, outcome |-> Pending,
           t0 |-> [ctx |-> NoContext, inits |-> 0, spans |-> <<>>],
           init |-> "returns", settled |-> Pending]

\* a run of traced steps that share the runtime context ctx; seen is the
\* trace ID a step finds in the context while it executes
NewTracing(ctx) == [ctx |-> ctx, ctx0 |-> ctx, inits |-> 0, spans |-> <<>>, steps |-> <<>>, step |-> NoStep]

\* return result / throw error: the step's execute has settled
Finish(t, outcome) ==
    [t EXCEPT !.step.pc = "done", !.step.outcome = outcome, !.step.seen = t.ctx.traceId]

\* catch (error) { if (span) handleSpanError(runtimeContext, error); throw error }
StepCatch(t, error, handle) ==
    IF t.step.span # <<>>
    THEN LET h == handleSpanError(t, handle) IN
         Finish(h.t, Rejected(IF h.ok THEN error ELSE ManagerError))
    ELSE Finish(t, Rejected(error))

\* a step that calls initializeTrace without looking for a trace ID
EnsureTraceAlways(t, init) ==
    initializeTrace(t, init)

\* if (!getTraceId(runtimeContext)) initializeTrace(runtimeContext, ...)
EnsureTrace(t, init) ==
    IF NoTraceId(getTraceId(t))
    THEN initializeTrace(t, init)
    ELSE [t |-> t, ok |-> TRUE]

\* config.autoTrace !== false
shouldAutoTrace(cfg) == cfg.autoTrace # "false"

\* execute of a traced step up to `await config.execute(...)`; init and
\* create are what the manager's calls do
ExecuteTracedStep(t, cfg, init, create) ==
    LET begun == [t EXCEPT !.step = [NoStep EXCEPT !.pc = "start", !.cfg = cfg, !.init = init,
                                                   !.t0 = [ctx |-> t.ctx, inits |-> t.inits,
                                                           spans |-> t.spans]]]
        traced == EnsureTrace(begun, init)
        spanned == IF cfg.kind = "llm" THEN createSpan(traced.t, "llm", create)
                   ELSE IF shouldAutoTrace(cfg) THEN createSpan(traced.t, "workflow", create)
                   ELSE [t |-> traced.t, ok |-> TRUE, span |-> <<>>]
    IN  IF ~traced.ok THEN StepCatch(traced.t, ManagerError, "returns")
        ELSE IF ~spanned.ok THEN StepCatch(spanned.t, ManagerError, "returns")
        ELSE [spanned.t EXCEPT !.step.pc = "execute", !.step.span = spanned.span,
                               !.step.seen = spanned.t.ctx.traceId]

\* after `await config.execute(...)` settled: the span is closed with the
\* result inside the try block, an error goes to the catch block
AfterExecute(t, settled, close, handle) ==
    LET got == [t EXCEPT !.step.settled = settled] IN
    IF settled.status = "rejected"
    THEN StepCatch(got, settled.error, handle)
    ELSE IF got.step.span = <<>>
    THEN Finish(got, settled)
    ELSE LET closed == closeCurrentSpan(got, close) IN
         IF closed.ok THEN Finish(closed.t, settled) ELSE StepCatch(closed.t, ManagerError, handle)

-----------------------------------------------------------------------------
(* Module evaluation *)

IdleOp == [NewOp("none", <<>>) EXCEPT !.pc = "idle"]

LoadLoggerOk ==
    /\ loaded = "no"
    /\ LoadConfig(env).ok
    /\ loaded' = "ok"
    /\ config' = LoadConfig(env).value
    /\ UNCHANGED <<stripeAgentToolkit, cx, tr, run, env, loadError, app, fns, sdk, galileoInit, handlers, proc, started, op>>

\* the error leaves the module evaluation uncaught: the process ends with code 1
LoadLoggerThrows ==
    /\ loaded = "no"
    /\ ~LoadConfig(env).ok
    /\ loaded' = "threw"
    /\ loadError' = LoadConfig(env).error
    /\ proc' = ProcessExit(1, "uncaught", 0)
    /\ UNCHANGED <<stripeAgentToolkit, cx, tr, run, env, config, app, fns, sdk, galileoInit, handlers, started, op>>

InitRest ==
    /\ loaded = "no"
    /\ config = NoConfig
    /\ loadError = NoError
    /\ app = "none"
    /\ fns = <<>>
    /\ sdk = NoSdkCalls
    /\ galileoInit = [state |-> "notCalled", error |-> NoError, init |-> Pending]
    /\ handlers = <<>>
    /\ proc = Running
    /\ started = 0
    /\ op = IdleOp
    /\ run = NoRun
    /\ stripeAgentToolkit = NoToolkit

\* no traced step is run
InitOther == tr = NewTracing(NoContext) /\ cx = NewCx("runtime", NoContext)

\* weather-tool.ts and stripe-tools.ts: the toolkit instance and every module-level `log({...}, async ...)`
WrapTools ==
    [name \in {"getWeather"} \cup StripeOps |->
        SdkLog([name |-> IF name = "getWeather" THEN "get-weather-api-call" ELSE StripeTable[name].span,
                spanType |-> "tool"],
               PlainFn(name))]

LoadTools ==
    /\ loaded = "ok" /\ app = "none" /\ proc.status = "running"
    /\ app' = "tools"
    /\ fns' = WrapTools
    /\ stripeAgentToolkit' = NewStripeAgentToolkit
    /\ sdk' = [sdk EXCEPT !.log = @ + Cardinality(DOMAIN WrapTools)]
    /\ UNCHANGED <<cx, tr, run, env, loaded, config, loadError, galileoInit, handlers, proc, started, op>>

\* initializeGalileo() up to its first await: init() is called only when enabled
initializeGalileo(cfg) ==
    IF ~cfg.enabled
    THEN [state |-> "skipped", error |-> NoError, initCalls |-> 0]
    ELSE [state |-> "pending", error |-> NoError, initCalls |-> 1]

\* mastra/index.ts: new Mastra(...); initializeGalileo().catch(console.error)
LoadMastra ==
    /\ app = "tools" /\ proc.status = "running"
    /\ app' = "ready"
    /\ galileoInit' = [state |-> initializeGalileo(config).state, error |-> NoError, init |-> Pending]
    /\ sdk' = [sdk EXCEPT !.init = @ + initializeGalileo(config).initCalls]
    /\ UNCHANGED <<stripeAgentToolkit, cx, tr, run, env, loaded, config, loadError, fns, handlers, proc, started, op>>

InitError == Error(<<"init failed">>)

\* what the SDK's init() may settle with: it resolves, or rejects with an
\* Error or with a thrown value that is no Error
InitResults ==
    {Resolved("undefined"), Rejected(InitError), Rejected([name |-> "NonError", message |-> <<>>])}

\* an initializeGalileo whose catch logs the error and returns
AfterInitSwallow(settled) ==
    [state |-> "resolved", error |-> NoError, init |-> settled]

\* after `await init(...)`: return, or catch (error) { console.error; throw error }
AfterInit(settled) ==
    IF settled.status = "resolved"
    THEN [state |-> "resolved", error |-> NoError, init |-> settled]
    ELSE [state |-> "rejected", error |-> settled.error, init |-> settled]

\* an initializeGalileo that switches logging off when init() fails
InitSettlesDisablesLogging ==
    /\ galileoInit.state = "pending" /\ proc.status = "running"
    /\ \E settled \in InitResults :
         /\ galileoInit' = AfterInit(settled)
         /\ config' = IF settled.status = "resolved" THEN config ELSE [config EXCEPT !.enabled = FALSE]
    /\ UNCHANGED <<stripeAgentToolkit, cx, tr, run, env, loaded, loadError, app, fns, sdk, handlers, proc, started, op>>

\* init() settles: initializeGalileo resolves, or logs and rethrows the error
InitSettles ==
    /\ galileoInit.state = "pending" /\ proc.status = "running"
    /\ \E settled \in InitResults : galileoInit' = AfterInit(settled)
    /\ UNCHANGED <<stripeAgentToolkit, cx, tr, run, env, loaded, config, loadError, app, fns, sdk, handlers, proc, started, op>>

-----------------------------------------------------------------------------
(* Shutdown *)

\* a SIGINT, SIGTERM or unhandledRejection event reaches its listener
Trigger ==
    /\ loaded = "ok" /\ proc.status = "running"
    /\ Len(handlers) < MaxTriggers
    /\ \E t \in Triggers :
         /\ handlers' = Append(handlers, gracefulFlush(config, t))
         /\ sdk' = [sdk EXCEPT !.flush = @ + gracefulFlush(config, t).flushCalls]
    /\ UNCHANGED <<stripeAgentToolkit, cx, tr, run, env, loaded, config, loadError, app, fns, galileoInit, proc, started, op>>

\* the flush() awaited by a listener settles
FlushSettles ==
    /\ proc.status = "running"
    /\ \E i \in 1..Len(handlers), outcome \in {"resolved", "rejected"} :
         /\ handlers[i].pc = "awaitFlush"
         /\ handlers' = [handlers EXCEPT ![i] = AfterFlush(@, outcome)]
         /\ sdk' = [sdk EXCEPT !.flush = @ + (handlers'[i].flushCalls - handlers[i].flushCalls)]
    /\ UNCHANGED <<stripeAgentToolkit, cx, tr, run, env, loaded, config, loadError, app, fns, galileoInit, proc, started, op>>

\* the listener resumes after `await gracefulFlush()` and calls process.exit
HandlerExit ==
    /\ proc.status = "running"
    /\ \E i \in 1..Len(handlers) :
         /\ handlers[i].pc = "afterFlush"
         /\ handlers' = [handlers EXCEPT ![i].pc = "exit"]
         /\ proc' = ProcessExit(ExitCode(handlers[i].trigger), "handler", i)
    /\ sdk' = ExitListener(sdk)
    /\ UNCHANGED <<stripeAgentToolkit, cx, tr, run, env, loaded, config, loadError, app, fns, galileoInit, started, op>>

\* process.exit(0) called by the application itself (runAllExamples' finally block)
DirectExit ==
    /\ app = "ready" /\ proc.status = "running"
    /\ proc' = ProcessExit(0, "direct", 0)
    /\ sdk' = ExitListener(sdk)
    /\ UNCHANGED <<stripeAgentToolkit, cx, tr, run, env, loaded, config, loadError, app, fns, galileoInit, handlers, started, op>>

-----------------------------------------------------------------------------
(* Operations *)

\* objects with any subset of the fields, each '' or a value
Contexts(fields) == UNION { [fs -> {"", "x"}] : fs \in SUBSET fields }

CanStart == app = "ready" /\ proc.status = "running" /\ op.pc = "idle" /\ started < MaxOps

InFlight(pc) == proc.status = "running" /\ op.pc = pc

OpFrame == UNCHANGED <<stripeAgentToolkit, cx, tr, run, env, loaded, config, loadError, app, fns, galileoInit, handlers, proc>>

StartWeatherTool ==
    /\ CanStart
    /\ \E context \in Contexts({"location"}) :
         /\ op' = WeatherToolExecute(NewOp("weatherTool", context), fns["getWeather"])
         /\ sdk' = [sdk EXCEPT !.spans = @ + IF op'.fn = NoFn THEN 0 ELSE Invoke(fns["getWeather"]).spans]
    /\ started' = started + 1
    /\ OpFrame

StartFetchWeather ==
    /\ CanStart
    /\ \E inputData \in Contexts({"city"}) :
         op' = FetchWeatherExecute(NewOp("fetchWeather", inputData))
    /\ started' = started + 1
    /\ UNCHANGED sdk
    /\ OpFrame

GeocodeReturns ==
    /\ InFlight("geocode")
    /\ \E resp \in GeoResponses : op' = AfterGeocode(op, resp)
    /\ UNCHANGED <<sdk, started>>
    /\ OpFrame

ForecastReturnsFrom(responses) ==
    /\ InFlight("forecast")
    /\ \E resp \in responses : op' = AfterForecast(op, resp)
    /\ UNCHANGED <<sdk, started>>
    /\ OpFrame

ForecastReturns == ForecastReturnsFrom(ForecastResponses)

\* the forecast carries any weather code
WeatherCodeReturns == ForecastReturnsFrom(WeatherCodeResponses)

StartStripe ==
    /\ CanStart
    /\ stripeAgentToolkit.created
    /\ \E kind \in StripeOps, tools \in ToolLists :
         \E context \in Contexts(StripeTable[kind].required) :
            /\ op' = StripeExecute(NewOp(kind, context), fns[kind], tools)
            /\ sdk' = [sdk EXCEPT !.spans = @ + IF op'.fn = NoFn THEN 0 ELSE Invoke(fns[kind]).spans]
    /\ started' = started + 1
    /\ OpFrame

InvokeReturns ==
    /\ InFlight("invoke")
    /\ \E res \in InvokeResults : op' = AfterInvoke(op, res)
    /\ UNCHANGED <<sdk, started>>
    /\ OpFrame

StartPlanActivities ==
    /\ CanStart
    /\ \E inputData \in {<<>>, <<SomeForecast>>}, agent \in BOOLEAN :
         op' = PlanActivitiesExecute(NewOp("planActivities", [inputData |-> inputData, agent |-> agent]))
    /\ started' = started + 1
    /\ UNCHANGED sdk
    /\ OpFrame

StreamReturns ==
    /\ InFlight("stream")
    /\ \E res \in {Resolved("stream"), Rejected(StreamError)} : op' = AfterStream(op, res)
    /\ UNCHANGED <<sdk, started>>
    /\ OpFrame

ChunkArrives ==
    /\ InFlight("chunks")
    /\ Len(op.text) < MaxChunks
    /\ \E chunk \in {"a", "b"} : op' = OnChunk(op, chunk)
    /\ UNCHANGED <<sdk, started>>
    /\ OpFrame

StreamEnds ==
    /\ InFlight("chunks")
    /\ op' = OnStreamEnd(op)
    /\ UNCHANGED <<sdk, started>>
    /\ OpFrame

StreamFails ==
    /\ InFlight("chunks")
    /\ op' = OnStreamError(op, StreamError)
    /\ UNCHANGED <<sdk, started>>
    /\ OpFrame

\* const f = log(options, fn), logOperation(options, fn) or
\* logWithFlush(options, fn); await f(...args)
StartWrapped ==
    /\ CanStart
    /\ \E how \in {"log", "logOperation", "logWithFlush"}, args \in ArgLists :
         LET made == Wrap(config, how, TestOptions, PlainFn("testFunction"))
         IN  IF made.ok
             THEN /\ op' = CallWrapped(NewOp(how, args), made.fn)
                  /\ sdk' = [sdk EXCEPT !.log = @ + made.logCalls, !.spans = @ + Invoke(made.fn).spans]
             ELSE /\ op' = Refuse(NewOp(how, args), made.error)
                  /\ UNCHANGED sdk
    /\ started' = started + 1
    /\ OpFrame

FnSettles ==
    /\ InFlight("fn")
    /\ \E settled \in FnSettlements : op' = AfterFn(op, settled)
    /\ UNCHANGED <<sdk, started>>
    /\ OpFrame

\* the caller has taken the result; the next operation may be invoked
FinishOp ==
    /\ InFlight("done")
    /\ run.status # "running"
    /\ op' = IdleOp
    /\ UNCHANGED <<sdk, started>>
    /\ OpFrame

RunFrame == UNCHANGED <<stripeAgentToolkit, cx, tr, env, loaded, config, loadError, app, fns, sdk, galileoInit, handlers, proc>>

\* const run = workflow.createRun(); run.start({ inputData })
RunStarts ==
    /\ CanStart
    /\ \E inputData \in Contexts({"city"}), agent \in BOOLEAN :
         /\ run' = StartRun(weatherWorkflow, inputData, agent)
         /\ op' = StepExecute(run'.starts[1].step, inputData, agent)
    /\ started' = started + 1
    /\ RunFrame

\* the step in progress has settled: the engine goes on or ends the run
StepSettles ==
    /\ InFlight("done")
    /\ run.status = "running"
    /\ run' = AfterStep(weatherWorkflow, run, op)
    /\ op' = IF run'.status = "running"
             THEN StepExecute(run'.starts[run'.at].step, run'.starts[run'.at].inputData, run.agent)
             ELSE IdleOp
    /\ UNCHANGED started
    /\ RunFrame

-----------------------------------------------------------------------------
(* Specifications *)

InitConfig == env \in AllEnvs /\ InitRest /\ InitOther

NextConfig == LoadLoggerOk \/ LoadLoggerThrows

\* loading the configuration, over every environment
SpecConfig == InitConfig /\ [][NextConfig]_vars

Init == env \in ProcEnvs /\ InitRest /\ InitOther

Serve ==
    \/ StartWeatherTool \/ StartFetchWeather \/ GeocodeReturns \/ ForecastReturns
    \/ StartStripe \/ InvokeReturns
    \/ StartPlanActivities \/ StreamReturns \/ ChunkArrives \/ StreamEnds \/ StreamFails
    \/ StartWrapped \/ FnSettles
    \/ FinishOp

Next ==
    \/ LoadLoggerOk \/ LoadLoggerThrows \/ LoadTools \/ LoadMastra \/ InitSettles
    \/ Serve
    \/ DirectExit

\* the application serving tool, step and wrapped-function invocations
Spec == Init /\ [][Next]_vars

NextShutdown ==
    \/ LoadLoggerOk \/ LoadLoggerThrows \/ LoadTools \/ LoadMastra \/ InitSettles
    \/ Trigger \/ FlushSettles \/ HandlerExit
    \/ DirectExit

NextConditions ==
    \/ LoadLoggerOk \/ LoadLoggerThrows \/ LoadTools \/ LoadMastra \/ InitSettles
    \/ StartWeatherTool \/ StartFetchWeather \/ GeocodeReturns \/ WeatherCodeReturns
    \/ FinishOp

\* weather lookups whose forecast carries any weather code
SpecConditions == Init /\ [][NextConditions]_vars

\* the application receiving shutdown events
SpecShutdown == Init /\ [][NextShutdown]_vars

NextProcess ==
    /\ Next \/ Trigger \/ FlushSettles \/ HandlerExit
    /\ started' <= MaxProcessOps
    /\ Len(handlers') <= MaxProcessTriggers

\* the application serving invocations while shutdown events arrive
SpecProcess == Init /\ [][NextProcess]_vars

\* a listener suspended at `await gracefulFlush()` resumes once the promise has settled
SpecShutdownFair == SpecShutdown /\ WF_vars(HandlerExit)

\* the runtime contexts a run starts with: no trace ID, '' or one set by the caller
StartContexts == { [NoContext EXCEPT !.traceId = v] : v \in {<<>>, <<"">>, <<"outer">>} }

\* the steps of the run so far, the one in progress included
Steps(t) == IF t.step.pc = "idle" THEN t.steps ELSE Append(t.steps, t.step)

TracingFrame ==
    UNCHANGED <<stripeAgentToolkit, cx, env, loaded, config, loadError, app, fns, sdk, galileoInit,
                handlers, proc, started, op, run>>

\* the engine executes the next traced step of the run (the first one, or the
\* one after a step that returned)
TracedStepStarts ==
    /\ app = "ready" /\ proc.status = "running"
    /\ tr.step.pc \in {"idle", "done"}
    /\ tr.step.pc = "done" => tr.step.outcome.status = "resolved"
    /\ Len(Steps(tr)) < MaxSteps
    /\ \E cfg \in StepConfigs, init \in {"returns", "throws"}, create \in {"span", "null", "throws"} :
         tr' = ExecuteTracedStep([tr EXCEPT !.steps = Steps(tr)], cfg, init, create)
    /\ TracingFrame

\* config.execute settles; close and handle are what the manager's calls do
ExecuteSettles ==
    /\ proc.status = "running"
    /\ tr.step.pc = "execute"
    /\ \E settled \in FnSettlements, close \in {"returns", "throws"}, handle \in {"returns", "throws"} :
         tr' = AfterExecute(tr, settled, close, handle)
    /\ TracingFrame

InitTracing ==
    /\ env \in ProcEnvs /\ InitRest
    /\ tr \in { NewTracing(c) : c \in StartContexts }
    /\ cx = NewCx("runtime", NoContext)

NextTracing ==
    \/ LoadLoggerOk \/ LoadLoggerThrows \/ LoadTools \/ LoadMastra \/ InitSettles
    \/ TracedStepStarts \/ ExecuteSettles

\* the application running a workflow of traced steps
SpecTracing == InitTracing /\ [][NextTracing]_vars

CxFrame ==
    UNCHANGED <<stripeAgentToolkit, env, loaded, config, loadError, app, fns, sdk, galileoInit,
                handlers, proc, started, op, run, tr>>

\* setTracingContext(context, partial)
SetsContext ==
    /\ \E partial \in Partials :
         cx' = [cx EXCEPT !.last = "set", !.partial = partial,
                          !.ctx = IF cx.impl = "runtime"
                                  THEN setTracingContext(cx.ctx, partial)
                                  ELSE setTracingContextPlain(cx.defined, cx.ctx, partial)]
    /\ CxFrame

\* const tracing = getTracingContext(context)
GetsContext ==
    /\ cx' = [cx EXCEPT !.last = "get",
                        !.got = IF cx.impl = "runtime"
                                THEN getTracingContext(cx.ctx)
                                ELSE getTracingContextPlain(cx.defined, cx.ctx)]
    /\ CxFrame

\* const child = createChildTracingContext(context)
CreatesChild ==
    /\ cx' = [cx EXCEPT !.last = "child", !.made = TRUE,
                        !.childObject = ChildObject(cx.ctx),
                        !.childCtx = IF cx.impl = "runtime"
                                     THEN createChildTracingContext(cx.ctx)
                                     ELSE createChildTracingContextPlain(cx.defined, cx.ctx),
                        !.parent = IF cx.defined THEN cx.ctx ELSE NoContext,
                        !.child = IF cx.impl = "runtime"
                                  THEN createChildTracingContext(cx.ctx)
                                  ELSE createChildTracingContextPlain(cx.defined, cx.ctx)]
    /\ CxFrame

\* setTracingContext(child, partial): the write goes to the object the child is
SetsChildContext ==
    /\ cx.made
    /\ \E partial \in Partials :
         LET written == IF cx.impl = "runtime"
                        THEN setTracingContext(cx.childCtx, partial)
                        ELSE setTracingContextPlain(TRUE, cx.childCtx, partial)
         IN  cx' = [cx EXCEPT !.last = "setChild", !.partial = partial,
                              !.childCtx = written,
                              !.ctx = IF cx.childObject = "parent" THEN written ELSE @]
    /\ CxFrame

SomeEnv == MkEnv({}, {}, {"custom"}, {}, {})

InitContext ==
    /\ env = SomeEnv /\ InitRest /\ tr = NewTracing(NoContext)
    /\ cx \in { NewCx(impl, c) : impl \in {"runtime", "plain"}, c \in AllContexts }
             \cup { [NewCx("plain", NoContext) EXCEPT !.defined = FALSE] }

NextContext == SetsContext \/ GetsContext \/ CreatesChild \/ SetsChildContext

\* the functions of the two tracing-context modules applied to every context
SpecContext == InitContext /\ [][NextContext]_vars

NextWorkflow ==
    \/ LoadLoggerOk \/ LoadLoggerThrows \/ LoadTools \/ LoadMastra \/ InitSettles
    \/ RunStarts \/ StepSettles
    \/ GeocodeReturns \/ ForecastReturns
    \/ StreamReturns \/ ChunkArrives \/ StreamEnds \/ StreamFails

\* the application running weatherWorkflow
SpecWorkflow == Init /\ [][NextWorkflow]_vars

-----------------------------------------------------------------------------
(* Properties *)

Wrappers == {"log", "logOperation"}

\* C1: a function made by log or logOperation is transparent: one call of it
\* calls the callback exactly once with the same arguments and settles as
\* the callback settled, whether Galileo is enabled or disabled.
C1_WrapperTransparent ==
    op.kind \in Wrappers =>
        /\ op.pc = "fn" => op.fnCalls = <<op.input>>
        /\ op.pc = "done" =>
              /\ op.fnCalls = <<op.input>>
              /\ op.fnOutcome \in FnSettlements
              /\ op.outcome = op.fnOutcome

C1_Witness ==
    /\ op.kind = "logOperation" /\ op.pc = "done"
    /\ ~config.enabled
    /\ op.input = <<"a", "b">>
    /\ op.outcome = Rejected(Error(<<"boom">>))

\* C2: with GALILEO_ENABLED resolved to false, the SDK's init, log and flush
\* are never called.
C2_DisabledMakesNoSdkCall ==
    (loaded = "ok" /\ ~config.enabled) =>
        sdk.init = 0 /\ sdk.log = 0 /\ sdk.flush = 0

C4_MissingConfigurationTolerated ==
    (DOMAIN env = {} /\ loaded # "no") =>
        loaded = "ok" /\ loadError = NoError /\ proc.status = "running"

Settled == {"resolved", "rejected"}

\* C5: with Galileo enabled, a shutdown listener calls process.exit only
\* after the flush it started has been invoked and has settled.
C5_FlushSettlesBeforeExit ==
    /\ \A i \in 1..Len(handlers) :
          (handlers[i].pc = "exit" /\ config.enabled) =>
              handlers[i].flushCalls >= 1 /\ handlers[i].flush \in Settled
    /\ proc.by = "handler" => handlers[proc.handler].pc = "exit"

C5_Witness ==
    /\ proc.by = "handler" /\ config.enabled
    /\ handlers[proc.handler].trigger = "SIGTERM"
    /\ handlers[proc.handler].flush = "resolved"

\* C6: with Galileo enabled, flush has been invoked before the process ends,
\* on every path by which it ends, a direct process.exit() included.
C6_FlushOnEveryExit ==
    (proc.status = "exited" /\ loaded = "ok" /\ config.enabled) => sdk.flush >= 1

\* C7: a flush that rejects during shutdown is caught: the listener makes no
\* second flush and goes on to process.exit, with code 0 after SIGINT or
\* SIGTERM and code 1 after unhandledRejection, and the process does exit.
C7_FlushFailureStillExits ==
    /\ [](\A i \in 1..Len(handlers) :
            /\ handlers[i].flushCalls <= 1
            /\ handlers[i].flush = "rejected" => handlers[i].pc \in {"afterFlush", "exit"})
    /\ [](sdk.flush <= Len(handlers))
    /\ [](proc.by = "handler" =>
            proc.code = IF handlers[proc.handler].trigger = "unhandledRejection" THEN 1 ELSE 0)
    /\ ((\E i \in 1..Len(handlers) : handlers[i].flush = "rejected") ~> proc.status = "exited")

C7_Witness ==
    /\ proc.by = "handler" /\ proc.code = 1
    /\ handlers[proc.handler].flush = "rejected"

\* C8: the SDK's init has completed before the first wrapped operation starts.
C8_InitCompletesBeforeFirstOperation ==
    [][(op.pc = "idle" /\ op'.pc # "idle" /\ op'.fn.kind = "sdkWrapped" /\ config.enabled)
          => galileoInit.state = "resolved"]_vars

\* C9 as stated: every error raised inside a tool or step operation reaches
\* the caller unchanged.
C9_ErrorsReachCallerUnchanged ==
    (op.pc = "done" /\ op.raised # NoError) => op.outcome = Rejected(op.raised)

\* C9, amended: an error raised inside an operation reaches the caller
\* unchanged, except that an error raised inside the API-call function of a
\* Stripe operation reaches the caller as a new Error whose message is
\* 'Failed to <operation>: ' followed by the original message, or by
\* 'Unknown error' when the thrown value is not an Error.
C9_ErrorsReachCaller ==
    (op.pc = "done" /\ op.raised # NoError) =>
        IF op.kind \in StripeOps /\ Len(op.fnCalls) = 1
        THEN op.outcome =
                [status |-> "rejected",
                 error |-> [name |-> "Error",
                            message |-> <<StripeTable[op.kind].failedMsg>> \o
                                        (IF op.raised.name \in {"Error", "TypeError", "SyntaxError"}
                                         THEN op.raised.message
                                         ELSE <<"Unknown error">>)]]
        ELSE op.outcome = [status |-> "rejected", error |-> op.raised]

C9_Witness ==
    /\ op.kind = "createRefund" /\ op.pc = "done"
    /\ op.raised = Error(<<"card_declined">>)
    /\ op.outcome = Rejected(Error(<<"Failed to create refund: ", "card_declined">>))

\* C10: within one invocation each external call (geocoding, forecast,
\* toolkit invoke, agent stream) is made at most once, and no external call
\* follows one that failed.
C10_NoRetry ==
    \A i, j \in 1..Len(op.calls) :
        /\ i < j => op.calls[i].result = "ok"
        /\ i # j => op.calls[i].api # op.calls[j].api

C10_Witness ==
    /\ op.kind = "weatherTool" /\ op.pc = "done"
    /\ Len(op.calls) = 2
    /\ op.calls[1].result = "ok" /\ op.calls[2].result = "failed"

\* C11: the steps of a run of weatherWorkflow start in the order fetch-weather,
\* plan-activities; plan-activities starts only after fetch-weather resolved
\* and its inputData is exactly the value fetch-weather resolved with; when
\* fetch-weather rejects the run fails, plan-activities is not started and
\* agent.stream is not called.
C11_WorkflowStepsInOrder ==
    /\ Len(run.starts) <= 2
    /\ \A i \in 1..Len(run.starts) :
          /\ run.starts[i].step = <<"fetchWeather", "planActivities">>[i]
          /\ run.starts[i].step = "planActivities" =>
                /\ Len(run.results) >= i - 1
                /\ run.results[i - 1].step = "fetchWeather"
                /\ run.results[i - 1].outcome.status = "resolved"
                /\ run.starts[i].inputData = run.results[i - 1].outcome.value
    /\ (run.status = "running" /\ op.kind = "planActivities") =>
          /\ Len(run.results) = 1
          /\ op.input.inputData = <<run.results[1].outcome.value>>
    /\ (Len(run.results) >= 1 /\ run.results[1].outcome.status = "rejected") =>
          /\ run.status = "failed"
          /\ Len(run.starts) = 1 /\ Len(run.results) = 1
          /\ op.kind # "planActivities"
          /\ \A k \in 1..Len(run.results[1].calls) : run.results[1].calls[k].api # "stream"

C11_Witness ==
    /\ run.status = "success"
    /\ run.starts[2] = [step |-> "planActivities",
                        inputData |-> [location |-> "Paris, FR", conditions |-> "Thunderstorm"]]
    /\ run.results[2].outcome = Resolved([activities |-> <<"a", "b">>])

\* C12: a span created by a traced step receives exactly one terminal
\* report: one closeCurrentSpan and no handleSpanError when the step returns,
\* one handleSpanError and no closeCurrentSpan when the step throws.
C12_OneTerminalReport ==
    \A i \in 1..Len(Steps(tr)) :
        LET step == Steps(tr)[i] IN
        (step.pc = "done" /\ step.span # <<>>) =>
            LET span == tr.spans[step.span[1]] IN
            IF step.outcome.status = "resolved"
            THEN span.closes = 1 /\ span.errors = 0
            ELSE span.closes = 0 /\ span.errors = 1

\* C13: in a run of traced steps sharing one runtime context a trace is
\* initialized at most once, and not at all when the context came with a
\* trace ID; every step after the first finds the trace ID the first found.
C13_TraceInitializedOnce ==
    /\ tr.inits <= 1
    /\ ~NoTraceId(tr.ctx0.traceId) => tr.inits = 0 /\ tr.ctx.traceId = tr.ctx0.traceId
    /\ \A i \in 1..Len(Steps(tr)) :
          Steps(tr)[i].pc \in {"execute", "done"} =>
              /\ Steps(tr)[i].seen = Steps(tr)[1].seen
              /\ Steps(tr)[i].pc = "execute" => ~NoTraceId(Steps(tr)[i].seen)

C13_Witness ==
    /\ Len(Steps(tr)) = 2
    /\ tr.ctx0.traceId = <<"">>
    /\ tr.inits = 1
    /\ Steps(tr)[1].cfg.kind = "tracing" /\ Steps(tr)[1].seen = <<"trace-1">>
    /\ Steps(tr)[2].cfg.kind = "llm" /\ Steps(tr)[2].pc = "done" /\ Steps(tr)[2].seen = <<"trace-1">>

\* C14: a child tracing context inherits the trace ID: when the parent holds
\* a trace ID the child's trace ID equals it, and when the parent holds none
\* (unset or empty) the child holds none, with the RuntimeContext functions
\* and with the plain-object functions.
C14_ChildInheritsTraceId ==
    cx.made =>
        IF NoTraceId(cx.parent.traceId)
        THEN NoTraceId(cx.child.traceId)
        ELSE cx.child.traceId = cx.parent.traceId

C14_Witness ==
    /\ cx.made /\ cx.impl = "runtime"
    /\ cx.parent = [traceId |-> <<"trace-1">>, currentSpan |-> <<"span-a">>, parentSpan |-> <<"span-b">>]
    /\ cx.child.traceId = <<"trace-1">>

\* C15: in a child tracing context the parent's current span is the parent
\* span and there is no current span.
C15_ChildNestsUnderCurrentSpan ==
    cx.made =>
        /\ cx.child.parentSpan = cx.parent.currentSpan
        /\ cx.child.currentSpan = <<>>

\* C16: a function made by logWithFlush runs the callback, and once its
\* invocation has completed (returned or failed) the Galileo logger has been
\* flushed.
C16_LogWithFlushFlushes ==
    (op.kind = "logWithFlush" /\ op.pc = "done") =>
        /\ op.fnCalls = <<op.input>>
        /\ sdk.flush >= 1

\* C17: once the configuration is loaded, each optional setting holds its
\* default when its variable is unset or empty (projectName 'mastra-agents',
\* logStreamName 'default-stream', baseUrl 'https://api.galileo.ai', enabled
\* true), and each string setting holds exactly the variable's value when
\* that is not empty; no optional variable makes the load fail.
C17_OptionalSettingsDefault ==
    /\ (loaded # "no" /\ ~Falsy(env, "GALILEO_API_KEY")) => loaded = "ok"
    /\ loaded = "ok" =>
          /\ config.projectName =
                IF Falsy(env, "GALILEO_PROJECT_NAME") THEN "mastra-agents" ELSE env["GALILEO_PROJECT_NAME"]
          /\ config.logStreamName =
                IF Falsy(env, "GALILEO_LOG_STREAM_NAME") THEN "default-stream" ELSE env["GALILEO_LOG_STREAM_NAME"]
          /\ config.baseUrl =
                IF Falsy(env, "GALILEO_BASE_URL") THEN "https://api.galileo.ai" ELSE env["GALILEO_BASE_URL"]
          /\ FalsyChars(env, "GALILEO_ENABLED") => config.enabled = TRUE

C17_Witness ==
    /\ loaded = "ok"
    /\ "GALILEO_PROJECT_NAME" \in DOMAIN env /\ env["GALILEO_PROJECT_NAME"] = ""
    /\ "GALILEO_LOG_STREAM_NAME" \notin DOMAIN env
    /\ "GALILEO_BASE_URL" \in DOMAIN env /\ env["GALILEO_BASE_URL"] = "custom"
    /\ "GALILEO_ENABLED" \in DOMAIN env /\ env["GALILEO_ENABLED"] = <<>>
    /\ config.projectName = "mastra-agents" /\ config.logStreamName = "default-stream"
    /\ config.baseUrl = "custom" /\ config.enabled

\* C18: when context.location is absent or empty, the weather tool's execute
\* fails with 'Location is required', getWeather is not called and no HTTP
\* request is issued.
C18_LocationRequiredBeforeIO ==
    (op.kind = "weatherTool" /\ Falsy(op.input, "location")) =>
        /\ op.pc = "done"
        /\ op.outcome = [status |-> "rejected",
                         error |-> [name |-> "Error", message |-> <<"Location is required">>]]
        /\ op.fnCalls = <<>>
        /\ op.calls = <<>>

C18_Witness ==
    /\ op.kind = "weatherTool" /\ op.pc = "done"
    /\ "location" \in DOMAIN op.input /\ op.input["location"] = ""
    /\ op.outcome = Rejected(Error(<<"Location is required">>))
    /\ op.calls = <<>>

\* C19: once the logger module is loaded its config object is never
\* modified, and once stripe-tools is loaded the toolkit instance is never
\* modified or replaced, by any step of initializeGalileo, of a wrapped or
\* tool invocation, of a flush or of a shutdown listener.
C19_SingletonsOnlyRead ==
    [][/\ loaded = "ok" => (loaded' = "ok" /\ config' = config)
       /\ stripeAgentToolkit.created => stripeAgentToolkit' = stripeAgentToolkit]_vars

C19_Witness ==
    /\ proc.by = "handler" /\ handlers[proc.handler].flush = "resolved"
    /\ galileoInit.state = "rejected"
    /\ op.kind = "createCustomer" /\ op.pc = "done" /\ Len(op.calls) = 1
    /\ config = LoadConfig(env).value
    /\ stripeAgentToolkit = NewStripeAgentToolkit

\* C20: in the weather tool and in the fetch-weather step the forecast
\* request is issued only after the geocoding request returned an ok
\* response with at least one result, and for the coordinates of the first
\* result; after a geocoding response that is not ok, or has no result, the
\* operation has failed ('Failed to geocode ...', "Location '...' not
\* found") and no forecast request is issued.
C20_GeocodeThenForecast ==
    op.kind \in {"weatherTool", "fetchWeather"} =>
        /\ \A k \in 1..Len(op.calls) :
              op.calls[k].api = "forecast" =>
                  /\ k = 2
                  /\ op.calls[1].api = "geocode"
                  /\ op.calls[1].response.fetch = "resolved" /\ op.calls[1].response.ok
                  /\ Len(op.calls[1].response.results) >= 1
                  /\ op.calls[2].arg.latitude = op.calls[1].response.results[1].latitude
                  /\ op.calls[2].arg.longitude = op.calls[1].response.results[1].longitude
        /\ (Len(op.calls) >= 1 /\ op.calls[1].response.fetch = "resolved") =>
              LET geocoding == op.calls[1].response
                  location == op.calls[1].arg
              IN  /\ ~geocoding.ok =>
                        /\ Len(op.calls) = 1 /\ op.pc = "done"
                        /\ op.outcome.status = "rejected"
                        /\ op.outcome.error.message =
                              <<IF op.kind = "weatherTool" THEN "Failed to geocode location '"
                                ELSE "Failed to geocode city '", location, "': ", geocoding.statusText>>
                  /\ (geocoding.ok /\ geocoding.body = "json" /\ geocoding.results = <<>>) =>
                        /\ Len(op.calls) = 1 /\ op.pc = "done"
                        /\ op.outcome.status = "rejected"
                        /\ op.outcome.error.message = <<"Location '", location, "' not found">>

C20_Witness ==
    /\ op.kind = "fetchWeather" /\ op.pc = "done"
    /\ Len(op.calls) = 2
    /\ op.calls[1].response = GeoBody(<<Place, OtherPlace>>)
    /\ op.calls[2].api = "forecast"
    /\ op.calls[2].arg = [latitude |-> 48, longitude |-> 2, name |-> "Paris, FR"]
    /\ op.outcome.status = "resolved"

\* C21: a Stripe tool invoked with a required field absent or empty fails
\* with its '... required' error, and neither getTools nor invoke of the
\* Stripe toolkit is called.
C21_RequiredFieldsBeforeStripe ==
    (/\ op.kind \in StripeOps
     /\ \E field \in StripeTable[op.kind].required :
            field \notin DOMAIN op.input \/ op.input[field] = "") =>
        /\ op.pc = "done"
        /\ op.outcome = Rejected(Error(<<StripeTable[op.kind].requiredMsg>>))
        /\ op.getTools = 0
        /\ \A k \in 1..Len(op.calls) : op.calls[k].api # "invoke"
        /\ op.fnCalls = <<>>

C21_Witness ==
    /\ op.kind = "createSubscription"
    /\ op.input = [customerId |-> "x", priceId |-> ""]
    /\ op.outcome = Rejected(Error(<<"Customer ID and price ID are required">>))
    /\ op.getTools = 0 /\ op.calls = <<>>

\* C22: when the tool list of the Stripe toolkit lacks the tool an operation
\* needs, the operation fails with an error stating that the tool is not
\* available, invoke is called on no tool and no result object is returned.
C22_MissingToolFails ==
    (/\ op.kind \in StripeOps
     /\ op.getTools > 0
     /\ StripeTable[op.kind].tool \notin op.tools) =>
        /\ op.pc = "done"
        /\ op.raised = Error(<<StripeTable[op.kind].missingMsg>>)
        /\ op.outcome.status = "rejected"
        /\ op.outcome.error.name = "Error"
        /\ op.outcome.error.message[Len(op.outcome.error.message)] = StripeTable[op.kind].missingMsg
        /\ \A k \in 1..Len(op.calls) : op.calls[k].api # "invoke"

C22_Witness ==
    /\ op.kind = "listProducts"
    /\ op.getTools = 1
    /\ "list_products" \notin op.tools /\ "create_refund" \in op.tools
    /\ op.outcome =
         Rejected(Error(<<"Failed to list products: ", "Products listing tool not available">>))
    /\ op.calls = <<>>

ListedCodes ==
    {0, 1, 2, 3, 45, 48, 51, 53, 55, 56, 57, 61, 63, 65, 66, 67,
     71, 73, 75, 77, 80, 81, 82, 85, 86, 95, 96, 99}

\* C25: getWeatherCondition maps every weather code of its table to its
\* description and every other integer to 'Unknown', and the copy in the
\* weather tool and the copy in the weather workflow return the same string
\* for every code.
C25_WeatherConditions ==
    (/\ op.kind \in {"weatherTool", "fetchWeather"}
     /\ op.pc = "done" /\ op.outcome.status = "resolved") =>
        LET code == op.calls[2].response.code
            said == op.outcome.value.conditions
        IN  /\ code \in ListedCodes =>
                  /\ said # "Unknown"
                  /\ said = conditions[code] /\ said = conditionsWorkflow[code]
            /\ code \notin ListedCodes => said = "Unknown"
            /\ said = getWeatherCondition(code)
            /\ said = getWeatherConditionWorkflow(code)

C25_Witness ==
    /\ op.kind = "fetchWeather" /\ op.pc = "done"
    /\ Len(op.calls) = 2 /\ op.calls[2].response.code = 82
    /\ op.outcome = Resolved([location |-> "Paris, FR", conditions |-> "Violent rain showers"])

\* C26: plan-activities returns as activities the concatenation, in
\* arrival order, of every chunk of the agent's text stream; it streams only
\* when both the forecast input and the weather agent are present, and fails
\* with 'Forecast data not found' / 'Weather agent not found' otherwise; when
\* the stream fails the step throws that error and returns no text.
C26_PlanActivitiesStreams ==
    op.kind = "planActivities" =>
        /\ op.input.inputData = <<>> =>
              op.outcome = Rejected(Error(<<"Forecast data not found">>)) /\ op.calls = <<>>
        /\ (op.input.inputData # <<>> /\ ~op.input.agent) =>
              op.outcome = Rejected(Error(<<"Weather agent not found">>)) /\ op.calls = <<>>
        /\ (op.calls # <<>>) =>
              /\ op.input.inputData # <<>> /\ op.input.agent
              /\ Len(op.calls) = 1 /\ op.calls[1].api = "stream"
        /\ (op.pc = "done" /\ op.outcome.status = "resolved") =>
              op.outcome.value = [activities |-> op.chunks]
        /\ (op.pc = "done" /\ op.calls # <<>> /\ op.calls[1].result = "failed") =>
              op.outcome = Rejected(op.raised) /\ op.raised = StreamError

C26_Witness ==
    /\ op.kind = "planActivities" /\ op.pc = "done"
    /\ op.chunks = <<"a", "b">>
    /\ op.outcome = Resolved([activities |-> <<"a", "b">>])

\* whether a context entry holds a value: a trace ID that is not '', a span
Holds(c, field) ==
    IF field = "traceId" THEN ~NoTraceId(c.traceId) ELSE c[field] # <<>>

\* the entries an implementation's setTracingContext can store
Stored(impl) ==
    IF impl = "runtime" THEN {"traceId", "currentSpan", "parentSpan"} ELSE {"traceId", "currentSpan"}

WithAutoTrace(step, create, close, handle) ==
    LET t0 == [NewTracing(step.t0.ctx) EXCEPT !.inits = step.t0.inits, !.spans = step.t0.spans]
        begun == ExecuteTracedStep(t0, [kind |-> "tracing", autoTrace |-> "unset"], step.init, create)
    IN  IF begun.step.pc = "done"
        THEN begun.step.outcome
        ELSE AfterExecute(begun, step.settled, close, handle).step.outcome

\* C28: a step built by createTracingStep with autoTrace false creates no
\* span and calls neither closeCurrentSpan nor handleSpanError, a trace is
\* still initialized when none exists, and the step's result or thrown
\* error is what the same step yields with autoTrace on.
C28_AutoTraceOffOnlyDropsSpans ==
    (/\ tr.step.cfg.kind = "tracing" /\ tr.step.cfg.autoTrace = "false"
     /\ tr.step.pc \in {"execute", "done"}) =>
        /\ tr.step.span = <<>>
        /\ tr.spans = tr.step.t0.spans
        /\ (NoTraceId(tr.step.t0.ctx.traceId) /\ tr.step.init = "returns") =>
              tr.inits = tr.step.t0.inits + 1 /\ ~NoTraceId(tr.ctx.traceId)
        /\ tr.step.pc = "done" =>
              \A create \in {"span", "null", "throws"}, close \in {"returns", "throws"},
                 handle \in {"returns", "throws"} :
                 tr.step.outcome = WithAutoTrace(tr.step, create, close, handle)

\* C29: for every interleaving of shutdown events (a second event arriving
\* while a flush is pending included), no shutdown listener calls
\* process.exit while a flush started by a shutdown listener is still in
\* flight.
C29_NoExitWhileFlushInFlight ==
    (proc.status = "exited" /\ proc.by = "handler") =>
        \A i \in 1..Len(handlers) : handlers[i].flush # "pending"

\* C30: createChildTracingContext leaves the parent context unchanged and
\* returns a context of its own: the parent's traceId, currentSpan and
\* parentSpan are the same after the call as before, and a later
\* setTracingContext on the child changes no entry of the parent.
C30_ChildLeavesParentAlone ==
    [][/\ cx'.last = "child" =>
             /\ cx'.ctx = cx.ctx
             /\ cx'.childObject # "parent"
       /\ cx'.last = "setChild" =>
             /\ cx'.ctx.traceId = cx.ctx.traceId
             /\ cx'.ctx.currentSpan = cx.ctx.currentSpan
             /\ cx'.ctx.parentSpan = cx.ctx.parentSpan]_vars

C30_Witness ==
    /\ cx.last = "setChild" /\ cx.impl = "plain"
    /\ cx.partial.traceId = <<"trace-2">> /\ cx.partial.currentSpan = <<"span-c">>
    /\ cx.childCtx.traceId = <<"trace-2">> /\ cx.childCtx.currentSpan = <<"span-c">>
    /\ cx.child.traceId = <<"trace-1">>
    /\ cx.parent = cx.ctx
    /\ cx.ctx.traceId = <<"trace-1">> /\ cx.ctx.currentSpan = <<"span-a">>

====
